---- MODULE Spec2Model ----
(***************************************************************************)
(* A model of pkg/secrets/secrets.go: SecretFetcher scans the process      *)
(* environment for secret definitions, expands plural definitions by a     *)
(* store listing (Walk), reads every path through the ParallelReader,      *)
(* merges the results (addSecrets) and writes them to the output sinks.    *)
(* Strings are TLA+ strings; the string functions of the Go libraries the  *)
(* code calls are operators computed character by character.               *)
(***************************************************************************)
EXTENDS Integers, Sequences, FiniteSets, Bags, TLC

(***************************************************************************)
(* Bounds of the model.                                                    *)
(***************************************************************************)
\* the longest environment snapshot os.Environ() returns
MaxEnvVars == 3
\* the largest config.Workers
MaxWorkers == 2
\* the number of submit calls of the engine-only specification
MaxSubmit == 3

(***************************************************************************)
(* Program constants (secrets.go:33-38).                                   *)
(***************************************************************************)
defaultKeyName == "value"
secretDestinationPrefix == "DAYTONA_SECRET_DESTINATION_"
secretStoragePathPrefix == "VAULT_SECRET_"
secretsStoragePathPrefix == "VAULT_SECRETS_"

(***************************************************************************)
(* Strings: the Go library functions the code calls.                       *)
(***************************************************************************)
Char(s, n) == SubSeq(s, n, n)

\* the characters of the model's strings, in ascending byte order
Bytes == "./0123456789=ABCDEFGHIJKLMNOPQRSTUVWXYZ_abcdefghijklmnopqrstuvwxyz"
UpperLetters == "ABCDEFGHIJKLMNOPQRSTUVWXYZ"
LowerLetters == "abcdefghijklmnopqrstuvwxyz"

\* the least n with Char(s, n) = c, or 0
IndexByte(s, c) ==
  LET at == {n \in 1..Len(s) : Char(s, n) = c}
  IN IF at = {} THEN 0 ELSE CHOOSE n \in at : \A m \in at : n <= m

\* the greatest n with Char(s, n) = c, or 0
LastIndexByte(s, c) ==
  LET at == {n \in 1..Len(s) : Char(s, n) = c}
  IN IF at = {} THEN 0 ELSE CHOOSE n \in at : \A m \in at : n >= m

\* strings.HasPrefix
HasPrefix(s, prefix) ==
  Len(s) >= Len(prefix) /\ SubSeq(s, 1, Len(prefix)) = prefix

\* strings.TrimPrefix
TrimPrefix(s, prefix) ==
  IF HasPrefix(s, prefix) THEN SubSeq(s, Len(prefix) + 1, Len(s)) ELSE s

LowerChar(c) ==
  IF IndexByte(UpperLetters, c) # 0 THEN Char(LowerLetters, IndexByte(UpperLetters, c)) ELSE c

UpperChar(c) ==
  IF IndexByte(LowerLetters, c) # 0 THEN Char(UpperLetters, IndexByte(LowerLetters, c)) ELSE c

RECURSIVE ToLower(_)
\* strings.ToLower
ToLower(s) == IF s = "" THEN "" ELSE LowerChar(Head(s)) \o ToLower(Tail(s))

RECURSIVE ToUpper(_)
\* strings.ToUpper
ToUpper(s) == IF s = "" THEN "" ELSE UpperChar(Head(s)) \o ToUpper(Tail(s))

\* strings.Split(env, "=")[0]: the text before the first "="
EnvName(env) ==
  IF IndexByte(env, "=") = 0 THEN env ELSE SubSeq(env, 1, IndexByte(env, "=") - 1)

\* the text after the first "=": the value the environment holds for the name
EnvValue(env) ==
  IF IndexByte(env, "=") = 0 THEN "" ELSE SubSeq(env, IndexByte(env, "=") + 1, Len(env))

\* path.Split(p): the file part, the text after the last "/"
PathFile(p) == SubSeq(p, LastIndexByte(p, "/") + 1, Len(p))

RECURSIVE SplitSlash(_)
\* the segments of p between its slashes
SplitSlash(p) ==
  IF IndexByte(p, "/") = 0 THEN <<p>>
  ELSE <<SubSeq(p, 1, IndexByte(p, "/") - 1)>>
         \o SplitSlash(SubSeq(p, IndexByte(p, "/") + 1, Len(p)))

RECURSIVE CleanSegments(_, _, _)
\* path.Clean on segments: drop "" and ".", let ".." remove the segment before it
CleanSegments(segs, out, rooted) ==
  IF segs = <<>> THEN out
  ELSE LET s == Head(segs) IN
       IF s = "" \/ s = "." THEN CleanSegments(Tail(segs), out, rooted)
       ELSE IF s = ".."
            THEN IF out # <<>> /\ out[Len(out)] # ".."
                 THEN CleanSegments(Tail(segs), SubSeq(out, 1, Len(out) - 1), rooted)
                 ELSE IF rooted THEN CleanSegments(Tail(segs), out, rooted)
                      ELSE CleanSegments(Tail(segs), Append(out, s), rooted)
            ELSE CleanSegments(Tail(segs), Append(out, s), rooted)

RECURSIVE JoinSlash(_)
JoinSlash(segs) ==
  IF segs = <<>> THEN ""
  ELSE IF Len(segs) = 1 THEN segs[1]
       ELSE segs[1] \o "/" \o JoinSlash(Tail(segs))

\* path.Clean
PathClean(p) ==
  LET rooted == HasPrefix(p, "/")
      body == JoinSlash(CleanSegments(SplitSlash(p), <<>>, rooted))
  IN IF rooted THEN "/" \o body
     ELSE IF body = "" THEN "." ELSE body

\* path.Join(a, b): empty elements are ignored, the result is cleaned
PathJoin(a, b) ==
  IF a = "" /\ b = "" THEN ""
  ELSE IF a = "" THEN PathClean(b)
       ELSE IF b = "" THEN PathClean(a)
            ELSE PathClean(a \o "/" \o b)

RECURSIVE StrLess(_, _)
\* a < b in Go's byte order of strings
StrLess(a, b) ==
  IF b = "" THEN FALSE
  ELSE IF a = "" THEN TRUE
       ELSE IF Head(a) = Head(b) THEN StrLess(Tail(a), Tail(b))
            ELSE IndexByte(Bytes, Head(a)) < IndexByte(Bytes, Head(b))

RECURSIVE SortStrings(_)
\* the strings of the set S in ascending order
SortStrings(S) ==
  IF S = {} THEN <<>>
  ELSE LET m == CHOOSE x \in S : \A y \in S \ {x} : StrLess(x, y)
       IN <<m>> \o SortStrings(S \ {m})

\* a Go map: a function on the finite set of its keys
EmptyMap == <<>>
MapPut(m, key, v) == [x \in (DOMAIN m) \cup {key} |-> IF x = key THEN v ELSE m[x]]

\* syscall.Setenv returns EINVAL for an empty key and for a key holding "="
SetenvAccepts(key) == key # "" /\ IndexByte(key, "=") = 0

RECURSIVE MarshalPairs(_, _)
MarshalPairs(m, keys) ==
  IF keys = <<>> THEN ""
  ELSE "\"" \o Head(keys) \o "\":\"" \o m[Head(keys)] \o "\""
         \o (IF Len(keys) > 1 THEN "," ELSE "") \o MarshalPairs(m, Tail(keys))

\* json.Marshal of a map[string]string: an object, the keys in ascending order
Marshal(m) ==
  CHOOSE text \in {"{" \o MarshalPairs(m, keys) \o "}" : keys \in {SortStrings(DOMAIN m)}} : TRUE

(***************************************************************************)
(* The store client's values (interface{} in Go): a string, a number or a  *)
(* list of values.                                                         *)
(***************************************************************************)
Str(s) == [t |-> "string", str |-> s, elems |-> <<>>]
Num(s) == [t |-> "number", str |-> s, elems |-> <<>>]
List(es) == [t |-> "list", str |-> "", elems |-> es]

\* what client.Logical().List(apex) can return: (list, err)
ListResponses ==
  { [err |-> TRUE,  isNil |-> TRUE,  Data |-> EmptyMap],
    [err |-> FALSE, isNil |-> TRUE,  Data |-> EmptyMap],
    [err |-> FALSE, isNil |-> FALSE, Data |-> EmptyMap],
    [err |-> FALSE, isNil |-> FALSE, Data |-> ("other" :> Str("x"))],
    [err |-> FALSE, isNil |-> FALSE, Data |-> ("keys" :> Str("A"))],
    [err |-> FALSE, isNil |-> FALSE, Data |-> ("keys" :> List(<<>>))],
    [err |-> FALSE, isNil |-> FALSE, Data |-> ("keys" :> List(<<Str("A"), Num("7")>>))],
    [err |-> FALSE, isNil |-> FALSE, Data |-> ("keys" :> List(<<Str("A"), Str("A_b")>>))] }

\* what the store's read of one path can return: (secret, err)
ReadResponses ==
  { [err |-> TRUE,  isNil |-> TRUE,  Data |-> EmptyMap],
    [err |-> FALSE, isNil |-> TRUE,  Data |-> EmptyMap],
    [err |-> FALSE, isNil |-> FALSE, Data |-> EmptyMap],
    [err |-> FALSE, isNil |-> FALSE, Data |-> ("value" :> Str("v1"))],
    [err |-> FALSE, isNil |-> FALSE, Data |-> ("value" :> Str("v2")) @@ ("b" :> Str("v3"))],
    [err |-> FALSE, isNil |-> FALSE, Data |-> ("value" :> Num("7"))] }

(***************************************************************************)
(* The environments the model starts from.                                 *)
(***************************************************************************)
EnvPool ==
  << "VAULT_SECRET_A=p/A",
     "VAULT_SECRETS_G=g",
     "VAULT_SECRET_S=s/",
     "VAULT_SECRET_E=",
     "DAYTONA_SECRET_DESTINATION_A=/out/a",
     "DAYTONA_SECRET_DESTINATION_g=/out/g" >>

RECURSIVE Pick(_, _)
\* the entries of pool at the indices S, in ascending order of the index
Pick(pool, S) ==
  IF S = {} THEN <<>>
  ELSE LET m == CHOOSE x \in S : \A y \in S : x <= y
       IN <<pool[m]>> \o Pick(pool, S \ {m})

Reverse(q) == [n \in 1..Len(q) |-> q[Len(q) + 1 - n]]

\* os.Environ(): at most MaxEnvVars variables of the pool, no name twice, in the
\* order of the pool or in the reverse order
Environs ==
  LET picked == { Pick(EnvPool, S) : S \in { T \in SUBSET (1..Len(EnvPool)) :
                                                Cardinality(T) <= MaxEnvVars } }
  IN picked \cup { Reverse(e) : e \in picked }

PayloadPaths == {"", "/out/all"}

(***************************************************************************)
(* State.                                                                  *)
(***************************************************************************)
VARIABLES
  envs,             \* os.Environ() as taken at line 64
  procEnv,          \* the process environment: name -> value
  config,           \* cfg.Config: Workers, SecretEnv, SecretPayloadPath
  pc,               \* where SecretFetcher is: scan, submit, drain, dispatch, done, fatal, panic
  i,                \* the index of the environment entry of the scan loop
  def,              \* the definition of the current batch
  k,                \* the index in def.paths of the submit loop, then of the drain loop
  defs,             \* the definitions to dispatch
  j,                \* the index in defs of the dispatch loop
  keyPathInputCh,   \* ParallelReader: the requests not yet received by a worker
  inFlight,         \* ParallelReader: the requests whose store read is in flight, a bag
  secretsOutputCh,  \* ParallelReader: the results not yet consumed
  files,            \* the file system: path -> content
  submitted,        \* history: the paths submitted, a bag
  produced,         \* history: the paths of the results produced, a bag
  readCalls,        \* history: the paths the store's read was called with, a bag
  listed,           \* history: the apexes listed and what the listing returned
  ioErrors,         \* history: the sinks whose write returned an error
  skipped           \* history: the definitions the validation gate skipped

vars == <<envs, procEnv, config, pc, i, def, k, defs, j, keyPathInputCh, inFlight,
          secretsOutputCh, files, submitted, produced, readCalls, listed, ioErrors,
          skipped>>

orchVars == <<envs, procEnv, config, pc, i, def, k, defs, j, files, listed, ioErrors, skipped>>

\* SecretDefinition (secrets.go:42-51); mergedFrom and answers are history: the
\* owners of the requests whose results were merged into secrets, and what the
\* store returned for each path whose result was merged
NoDef ==
  [EnvKey |-> "", SecretID |-> "", SecretApex |-> "", OutputDestination |-> "",
   secrets |-> EmptyMap, plural |-> FALSE, paths |-> <<>>, mergedFrom |-> {},
   answers |-> EmptyMap]

Exited == {"fatal", "panic"}

\* os.Getenv
Getenv(name) == IF name \in DOMAIN procEnv THEN procEnv[name] ELSE ""

\* the state after SecretFetcher built the ParallelReader (line 62) over the snapshot e
InitWith(e, c) ==
  /\ envs = e
  /\ procEnv = [n \in {EnvName(e[a]) : a \in 1..Len(e)} |->
                  EnvValue(CHOOSE x \in {e[a] : a \in 1..Len(e)} : EnvName(x) = n)]
  /\ config = c
  /\ pc = "scan"
  /\ i = 1
  /\ def = NoDef
  /\ k = 0
  /\ defs = <<>>
  /\ j = 0
  /\ keyPathInputCh = <<>>
  /\ inFlight = EmptyBag
  /\ secretsOutputCh = <<>>
  /\ files = EmptyMap
  /\ submitted = EmptyBag
  /\ produced = EmptyBag
  /\ readCalls = EmptyBag
  /\ listed = <<>>
  /\ ioErrors = {}
  /\ skipped = {}

Configs ==
  [Workers : 1..MaxWorkers, SecretEnv : BOOLEAN, SecretPayloadPath : PayloadPaths]

Init == \E e \in Environs, c \in Configs : InitWith(e, c)

(***************************************************************************)
(* The ParallelReader: Workers worker routines receive a path from         *)
(* keyPathInputCh, read it from the store and send the result to           *)
(* secretsOutputCh.                                                        *)
(***************************************************************************)
Request(path, owner) == [path |-> path, owner |-> owner]

\* SecretResult: KeyPath, Secret (nil, or its Data), Err; owner is history
SecretResult(req, resp) ==
  [KeyPath |-> req.path, isNil |-> resp.isNil, Data |-> resp.Data, Err |-> resp.err,
   owner |-> req.owner]

\* AsyncRequestKeyPath: queue the request, never blocks
AsyncRequestKeyPath(req) ==
  /\ keyPathInputCh' = Append(keyPathInputCh, req)
  /\ submitted' = submitted (+) SetToBag({req.path})
  /\ UNCHANGED <<inFlight, secretsOutputCh, produced, readCalls>>

\* a worker that sends nothing when the read returned an error
WorkerResultsDropError(req, resp) ==
  IF resp.err THEN <<>> ELSE <<SecretResult(req, resp)>>

\* the results a worker sends for one request and the store's answer to its read
WorkerResults(req, resp) == <<SecretResult(req, resp)>>

\* a reader built with one worker routine more than configured
WorkerCountOneMore == config.Workers + 1

\* line 62: the number of worker routines the ParallelReader is built with
WorkerCount == config.Workers

\* one of the worker routines is free: it receives the next request and calls
\* the store's read with its path
WorkerReceive ==
  /\ pc \notin Exited
  /\ BagCardinality(inFlight) < WorkerCount
  /\ keyPathInputCh # <<>>
  /\ inFlight' = inFlight (+) SetToBag({Head(keyPathInputCh)})
  /\ readCalls' = readCalls (+) SetToBag({Head(keyPathInputCh).path})
  /\ keyPathInputCh' = Tail(keyPathInputCh)
  /\ UNCHANGED <<secretsOutputCh, submitted, produced>>
  /\ UNCHANGED orchVars

\* the store's read of req returns: its worker sends the result and is free again
WorkerRead(req) ==
  /\ pc \notin Exited
  /\ BagIn(req, inFlight)
  /\ \E resp \in ReadResponses :
       LET out == WorkerResults(req, resp) IN
       /\ secretsOutputCh' = secretsOutputCh \o out
       /\ produced' = produced (+) SetToBag({out[n].KeyPath : n \in 1..Len(out)})
  /\ inFlight' = inFlight (-) SetToBag({req})
  /\ UNCHANGED <<keyPathInputCh, submitted, readCalls>>
  /\ UNCHANGED orchVars

\* ReadSecretResult: the next result; the caller waits while there is none
ReadSecretResultReady == secretsOutputCh # <<>>
ReadSecretResult == Head(secretsOutputCh)

(***************************************************************************)
(* SecretFetcher, lines 66-117: one environment entry.                     *)
(***************************************************************************)
\* lines 83-92: the switch on the prefix of the name
Recognized(envKey) ==
  HasPrefix(envKey, secretStoragePathPrefix) \/ HasPrefix(envKey, secretsStoragePathPrefix)

\* a switch that tests the singular prefix without its last "_"
NewDefinitionLoosePrefix(envKey, apex) ==
  IF HasPrefix(envKey, "VAULT_SECRET")
  THEN [NoDef EXCEPT !.EnvKey = envKey, !.SecretApex = apex,
                     !.SecretID = TrimPrefix(envKey, secretStoragePathPrefix),
                     !.paths = <<apex>>]
  ELSE NoDef

\* lines 77-92: the definition of a variable envKey=apex
NewDefinition(envKey, apex) ==
  IF HasPrefix(envKey, secretStoragePathPrefix)
  THEN [NoDef EXCEPT !.EnvKey = envKey, !.SecretApex = apex,
                     !.SecretID = TrimPrefix(envKey, secretStoragePathPrefix),
                     !.paths = <<apex>>]
  ELSE IF HasPrefix(envKey, secretsStoragePathPrefix)
       THEN [NoDef EXCEPT !.EnvKey = envKey, !.SecretApex = apex,
                          !.SecretID = TrimPrefix(envKey, secretsStoragePathPrefix),
                          !.plural = TRUE]
       ELSE NoDef

\* a lookup that tries the upper-case name before the lower-case name
ResolveDestinationUpperFirst(secretID) ==
  IF Getenv(secretDestinationPrefix \o secretID) # ""
  THEN Getenv(secretDestinationPrefix \o secretID)
  ELSE IF Getenv(secretDestinationPrefix \o ToUpper(secretID)) # ""
       THEN Getenv(secretDestinationPrefix \o ToUpper(secretID))
       ELSE Getenv(secretDestinationPrefix \o ToLower(secretID))

\* lines 97-103: the companion variable, as given, then lower case, then upper case
ResolveDestination(secretID) ==
  IF Getenv(secretDestinationPrefix \o secretID) # ""
  THEN Getenv(secretDestinationPrefix \o secretID)
  ELSE IF Getenv(secretDestinationPrefix \o ToLower(secretID)) # ""
       THEN Getenv(secretDestinationPrefix \o ToLower(secretID))
       ELSE IF Getenv(secretDestinationPrefix \o ToUpper(secretID)) # ""
            THEN Getenv(secretDestinationPrefix \o ToUpper(secretID))
            ELSE ""

\* a gate that lets every definition pass
NoOutputMethodNever(d) == FALSE

\* lines 105-110: no output method is configured for the definition
NoOutputMethod(d) ==
  config.SecretPayloadPath = "" /\ ~config.SecretEnv /\ d.OutputDestination = ""

\* Walk, lines 232-249: the listing makes Walk return an error
WalkFails(resp) ==
  IF resp.err THEN TRUE
  ELSE IF resp.isNil \/ DOMAIN resp.Data = {} THEN TRUE
  ELSE IF "keys" \notin DOMAIN resp.Data THEN TRUE
  ELSE IF resp.Data["keys"].t # "list" THEN TRUE
  ELSE \E n \in 1..Len(resp.Data["keys"].elems) : resp.Data["keys"].elems[n].t # "string"

\* Walk: sd.paths is assigned at line 252 only, after every check passed
Walk(d, resp) ==
  IF WalkFails(resp) THEN d
  ELSE LET keys == resp.Data["keys"].elems IN
       [d EXCEPT !.paths = [n \in 1..Len(keys) |-> PathJoin(d.SecretApex, keys[n].str)]]

\* the definition of the entry env before the validation gate (lines 70-103):
\* envKey and the definition are bound as values, each computed once
Candidate(env) ==
  CHOOSE c \in { [d EXCEPT !.OutputDestination = ResolveDestination(d.SecretID)] :
                   d \in { NewDefinition(envKey, Getenv(envKey)) :
                             envKey \in {EnvName(env)} } } : TRUE

\* lines 73-75 and 90-92: an empty value or no prefix, the entry is passed over
ScanSkip ==
  /\ pc = "scan" /\ i <= Len(envs)
  /\ Getenv(EnvName(envs[i])) = "" \/ ~Recognized(EnvName(envs[i]))
  /\ i' = i + 1
  /\ UNCHANGED <<envs, procEnv, config, pc, def, k, defs, j, files, listed, ioErrors, skipped>>
  /\ UNCHANGED <<keyPathInputCh, inFlight, secretsOutputCh, submitted, produced, readCalls>>

\* lines 105-110: the validation gate skips the definition
ScanNoOutput ==
  /\ pc = "scan" /\ i <= Len(envs)
  /\ Getenv(EnvName(envs[i])) # "" /\ Recognized(EnvName(envs[i]))
  /\ NoOutputMethod(Candidate(envs[i]))
  /\ i' = i + 1
  /\ skipped' = skipped \cup {Candidate(envs[i])}
  /\ UNCHANGED <<envs, procEnv, config, pc, def, k, defs, j, files, listed, ioErrors>>
  /\ UNCHANGED <<keyPathInputCh, inFlight, secretsOutputCh, submitted, produced, readCalls>>

\* lines 112-117: Walk of a plural definition returns an error, the run ends
ScanWalkFatal ==
  /\ pc = "scan" /\ i <= Len(envs)
  /\ Getenv(EnvName(envs[i])) # "" /\ Recognized(EnvName(envs[i]))
  /\ ~NoOutputMethod(Candidate(envs[i]))
  /\ Candidate(envs[i]).plural
  /\ \E resp \in ListResponses :
       /\ WalkFails(resp)
       /\ def' = Walk(Candidate(envs[i]), resp)
       /\ listed' = Append(listed, [owner |-> EnvName(envs[i]), resp |-> resp])
  /\ pc' = "fatal"
  /\ UNCHANGED <<envs, procEnv, config, i, k, defs, j, files, ioErrors, skipped>>
  /\ UNCHANGED <<keyPathInputCh, inFlight, secretsOutputCh, submitted, produced, readCalls>>

\* lines 112-119: the definition is resolved, its submit loop starts
ScanResolve ==
  /\ pc = "scan" /\ i <= Len(envs)
  /\ Getenv(EnvName(envs[i])) # "" /\ Recognized(EnvName(envs[i]))
  /\ ~NoOutputMethod(Candidate(envs[i]))
  /\ IF Candidate(envs[i]).plural
     THEN \E resp \in ListResponses :
            /\ ~WalkFails(resp)
            /\ def' = Walk(Candidate(envs[i]), resp)
            /\ listed' = Append(listed, [owner |-> EnvName(envs[i]), resp |-> resp])
     ELSE def' = Candidate(envs[i]) /\ listed' = listed
  /\ pc' = "submit"
  /\ k' = 1
  /\ UNCHANGED <<envs, procEnv, config, i, defs, j, files, ioErrors, skipped>>
  /\ UNCHANGED <<keyPathInputCh, inFlight, secretsOutputCh, submitted, produced, readCalls>>

(***************************************************************************)
(* SecretFetcher, lines 119-134: the batch of one definition.              *)
(***************************************************************************)
\* lines 119-121: one iteration of the submit loop
Submit ==
  /\ pc = "submit" /\ k <= Len(def.paths)
  /\ AsyncRequestKeyPath(Request(def.paths[k], def.EnvKey))
  /\ IF k = Len(def.paths) THEN pc' = "drain" /\ k' = 1
                           ELSE pc' = pc /\ k' = k + 1
  /\ UNCHANGED <<envs, procEnv, config, i, def, defs, j, files, listed, ioErrors, skipped>>

\* a drain loop that reads one result more than was submitted
DrainCountOneMore(d) == Len(d.paths) + 1

\* a drain loop that stops one result early
DrainCountOneShort(d) == Len(d.paths) - 1

\* line 122: the number of results the drain loop reads, one per path
DrainCount(d) == Len(d.paths)

\* a switch whose default case takes every attribute
SecretKeyExpandsAll(keyName, attr) == keyName \o "_" \o attr

\* addSecrets, lines 216-222: the key an attribute of the secret is stored under
SecretKey(keyName, attr) ==
  IF attr = defaultKeyName THEN keyName ELSE keyName \o "_" \o attr

\* a merge that makes a new map of the attributes of the result r
addSecretsReplaces(d, r) ==
  LET keyName == PathFile(r.KeyPath)
      new == {SecretKey(keyName, a) : a \in DOMAIN r.Data}
  IN [d EXCEPT
        !.secrets = [x \in new |->
                       r.Data[CHOOSE a \in DOMAIN r.Data : SecretKey(keyName, a) = x].str],
        !.mergedFrom = @ \cup {r.owner},
        !.answers = MapPut(@, r.KeyPath, r.Data)]

\* addSecrets, lines 215-223: the secrets after the merge of the result r
addSecrets(d, r) ==
  LET keyName == PathFile(r.KeyPath)
      new == {SecretKey(keyName, a) : a \in DOMAIN r.Data}
  IN [d EXCEPT
        !.secrets = [x \in (DOMAIN d.secrets) \cup new |->
                       IF x \in new
                       THEN r.Data[CHOOSE a \in DOMAIN r.Data : SecretKey(keyName, a) = x].str
                       ELSE d.secrets[x]],
        !.mergedFrom = @ \cup {r.owner},
        !.answers = MapPut(@, r.KeyPath, r.Data)]

\* addSecrets, lines 218 and 221: v.(string) panics on a value that is no string
AssertionPanics(r) == \E a \in DOMAIN r.Data : r.Data[a].t # "string"

\* lines 122-132: one iteration of the drain loop
Drain ==
  /\ pc = "drain" /\ k <= DrainCount(def)
  /\ ReadSecretResultReady
  /\ secretsOutputCh' = Tail(secretsOutputCh)
  /\ LET r == ReadSecretResult IN
       IF r.Err \/ r.isNil
       THEN pc' = "fatal" /\ UNCHANGED <<def, k>>
       ELSE IF AssertionPanics(r)
            THEN pc' = "panic" /\ UNCHANGED <<def, k>>
            ELSE pc' = pc /\ def' = addSecrets(def, r) /\ k' = k + 1
  /\ UNCHANGED <<envs, procEnv, config, i, defs, j, files, listed, ioErrors, skipped>>
  /\ UNCHANGED <<keyPathInputCh, inFlight, submitted, produced, readCalls>>

\* line 134: both loops are over, the definition joins defs
EndBatch ==
  /\ \/ pc = "submit" /\ k > Len(def.paths)
     \/ pc = "drain" /\ k > DrainCount(def)
  /\ defs' = Append(defs, def)
  /\ def' = NoDef
  /\ k' = 0
  /\ i' = i + 1
  /\ pc' = "scan"
  /\ UNCHANGED <<envs, procEnv, config, j, files, listed, ioErrors, skipped>>
  /\ UNCHANGED <<keyPathInputCh, inFlight, secretsOutputCh, submitted, produced, readCalls>>

(***************************************************************************)
(* SecretFetcher, lines 138-153: the output of the definitions.            *)
(***************************************************************************)
\* the orders in which a range over a map with the keys S can visit them
Orders(S) ==
  { o \in [1..Cardinality(S) -> S] : \A a, b \in 1..Cardinality(S) : a # b => o[a] # o[b] }

\* the write of a call that fails: the n-th, or none (0)
Faults(n) == 0..n

\* a Setenv that leaves a variable that is already set as it is
SetenvKeepsFirst(env, key, v) ==
  IF key \in DOMAIN env THEN env ELSE MapPut(env, key, v)

\* os.Setenv on an environment
Setenv(env, key, v) == MapPut(env, key, v)

RECURSIVE setEnvSecrets(_, _, _)
\* setEnvSecrets, lines 187-196, the map visited in the order given:
\* the environment after it and whether it returned an error
setEnvSecrets(env, secrets, order) ==
  IF order = <<>> THEN [env |-> env, err |-> FALSE]
  ELSE IF ~SetenvAccepts(Head(order)) THEN [env |-> env, err |-> TRUE]
       ELSE setEnvSecrets(Setenv(env, Head(order), secrets[Head(order)]), secrets, Tail(order))

\* a WriteFile that opens the file to append
WriteFileAppends(fs, filename, data, fails) ==
  IF fails THEN fs
  ELSE MapPut(fs, filename, (IF filename \in DOMAIN fs THEN fs[filename] ELSE "") \o data)

\* ioutil.WriteFile: the file is created or truncated and holds the data; a
\* call that fails (its OpenFile returns the error) leaves the file system as it is
WriteFile(fs, filename, data, fails) ==
  IF fails THEN fs ELSE MapPut(fs, filename, data)

\* writeJSONSecrets, lines 174-185
writeJSONSecrets(fs, secrets, filepath, fault) ==
  [fs |-> WriteFile(fs, filepath, Marshal(secrets), fault = 1), err |-> fault = 1]

RECURSIVE WriteValues(_, _, _, _, _)
\* lines 163-169: one WriteFile per value, in the order given, until one fails
WriteValues(fs, d, order, n, fault) ==
  IF n > Len(order) THEN [fs |-> fs, err |-> FALSE]
  ELSE IF fault = n
       THEN [fs |-> WriteFile(fs, d.OutputDestination, d.secrets[order[n]], TRUE),
             err |-> TRUE]
       ELSE WriteValues(WriteFile(fs, d.OutputDestination, d.secrets[order[n]], FALSE),
                        d, order, n + 1, fault)

\* writeSecretsToDestination, lines 156-172
writeSecretsToDestination(fs, d, order, fault) ==
  IF d.plural THEN writeJSONSecrets(fs, d.secrets, d.OutputDestination, fault)
  ELSE WriteValues(fs, d, order, 1, fault)

\* the sinks of the j-th definition whose write returned an error
SinkErrors(n, envErr, destErr, payErr) ==
  {[sink |-> "env", def |-> n] : x \in {0} \cap (IF envErr THEN {0} ELSE {})}
    \cup {[sink |-> "destination", def |-> n] : x \in {0} \cap (IF destErr THEN {0} ELSE {})}
    \cup {[sink |-> "payload", def |-> n] : x \in {0} \cap (IF payErr THEN {0} ELSE {})}

\* line 149-151: the errors of the sinks that end the run
DispatchFatal(envErr, destErr, payErr) == payErr

\* lines 138-153: one iteration of the output loop
Dispatch ==
  /\ pc = "dispatch" /\ j <= Len(defs)
  /\ LET d == defs[j]
         keys == DOMAIN d.secrets
         writes == IF d.plural THEN 1 ELSE Cardinality(keys)
     IN \E envOrder \in (IF config.SecretEnv THEN Orders(keys) ELSE {<<>>}),
           destOrder \in (IF d.OutputDestination # "" /\ ~d.plural THEN Orders(keys) ELSE {<<>>}),
           destFault \in (IF d.OutputDestination # "" THEN Faults(writes) ELSE {0}),
           payFault \in (IF config.SecretPayloadPath # "" THEN Faults(1) ELSE {0}) :
          \E e \in {IF config.SecretEnv
                     THEN setEnvSecrets(procEnv, d.secrets, envOrder)
                     ELSE [env |-> procEnv, err |-> FALSE]},
             f1 \in {IF d.OutputDestination # ""
                      THEN writeSecretsToDestination(files, d, destOrder, destFault)
                      ELSE [fs |-> files, err |-> FALSE]} :
          \E f2 \in {IF config.SecretPayloadPath # ""
                      THEN writeJSONSecrets(f1.fs, d.secrets, config.SecretPayloadPath, payFault)
                      ELSE [fs |-> f1.fs, err |-> FALSE]} :
             /\ procEnv' = e.env
             /\ files' = f2.fs
             /\ ioErrors' = ioErrors \cup SinkErrors(j, e.err, f1.err, f2.err)
             /\ IF DispatchFatal(e.err, f1.err, f2.err)
                THEN pc' = "fatal" /\ j' = j
                ELSE pc' = pc /\ j' = j + 1
  /\ UNCHANGED <<envs, config, i, def, k, defs, listed, skipped>>
  /\ UNCHANGED <<keyPathInputCh, inFlight, secretsOutputCh, submitted, produced, readCalls>>

\* a scan loop that leaves out the last entry of envs
ScanOverBeforeLast == i >= Len(envs)

\* line 66: the range over envs has been through every entry
ScanOver == i > Len(envs)

\* lines 135-138, the end of the scan loop: the output loop starts
StartDispatch ==
  /\ pc = "scan" /\ ScanOver
  /\ pc' = "dispatch"
  /\ j' = 1
  /\ UNCHANGED <<envs, procEnv, config, i, def, k, defs, files, listed, ioErrors, skipped>>
  /\ UNCHANGED <<keyPathInputCh, inFlight, secretsOutputCh, submitted, produced, readCalls>>

\* line 154: the output loop is over, SecretFetcher returns
Finish ==
  /\ pc = "dispatch" /\ j > Len(defs)
  /\ pc' = "done"
  /\ UNCHANGED <<envs, procEnv, config, i, def, k, defs, j, files, listed, ioErrors, skipped>>
  /\ UNCHANGED <<keyPathInputCh, inFlight, secretsOutputCh, submitted, produced, readCalls>>

Next ==
  \/ ScanSkip
  \/ ScanNoOutput
  \/ ScanWalkFatal
  \/ ScanResolve
  \/ Submit
  \/ Drain
  \/ EndBatch
  \/ StartDispatch
  \/ Dispatch
  \/ Finish
  \/ WorkerReceive
  \/ \E req \in BagToSet(inFlight) : WorkerRead(req)

Spec == Init /\ [][Next]_vars

\* the steps of SecretFetcher itself, one goroutine
Orchestrator ==
  \/ ScanSkip
  \/ ScanNoOutput
  \/ ScanWalkFatal
  \/ ScanResolve
  \/ Submit
  \/ Drain
  \/ EndBatch
  \/ StartDispatch
  \/ Dispatch
  \/ Finish

\* SecretFetcher goes on while it can (a list call returns: it is part of the
\* scan step), a free worker receives a waiting request, and a read that is in
\* flight returns
Fairness ==
  /\ WF_vars(Orchestrator)
  /\ WF_vars(WorkerReceive)
  /\ WF_vars(\E req \in BagToSet(inFlight) : WorkerRead(req))

FairSpec == Spec /\ Fairness

(***************************************************************************)
(* The ParallelReader alone: a caller that submits any paths and consumes  *)
(* any results that are there, in any interleaving with the workers.       *)
(***************************************************************************)
EnginePaths == {"p/A", "g/A_b"}

EngineInit ==
  \E n \in 1..MaxWorkers :
    InitWith(<<>>, [Workers |-> n, SecretEnv |-> FALSE, SecretPayloadPath |-> ""])

EngineSubmit ==
  /\ BagCardinality(submitted) < MaxSubmit
  /\ \E p \in EnginePaths : AsyncRequestKeyPath(Request(p, ""))
  /\ UNCHANGED orchVars

EngineConsume ==
  /\ ReadSecretResultReady
  /\ secretsOutputCh' = Tail(secretsOutputCh)
  /\ UNCHANGED <<keyPathInputCh, inFlight, submitted, produced, readCalls>>
  /\ UNCHANGED orchVars

EngineNext ==
  \/ EngineSubmit
  \/ EngineConsume
  \/ WorkerReceive
  \/ \E req \in BagToSet(inFlight) : WorkerRead(req)

\* a worker routine that can receive a request does, and every store read returns
WorkersFair ==
  /\ WF_vars(WorkerReceive)
  /\ \A p \in EnginePaths : WF_vars(WorkerRead(Request(p, "")))

EngineSpec == EngineInit /\ [][EngineNext]_vars /\ WorkersFair

\* C1: the results produced are never more than the paths submitted, path by
\* path, and from some moment on the bag of result paths is the bag of submitted
\* paths: one result per submission, none dropped, none invented
C1_EveryRequestAnswered ==
  /\ [](produced \sqsubseteq submitted)
  /\ <>[](produced = submitted)

\* three submissions, two of them of one path, all answered
C1_Witness ==
  /\ BagCardinality(submitted) >= 3
  /\ \E p \in EnginePaths : CopiesIn(p, submitted) >= 2
  /\ produced = submitted

(***************************************************************************)
(* The claims.                                                             *)
(***************************************************************************)
\* the definitions that exist: those of defs and the one of the current batch
Batching == pc \in {"submit", "drain"}
Definitions == {defs[n] : n \in 1..Len(defs)} \cup (IF def # NoDef THEN {def} ELSE {})

\* key is derived from the final segment of path: it is the segment, or the
\* segment, "_" and an attribute name
DerivedFrom(key, path) ==
  key = PathFile(path) \/ HasPrefix(key, PathFile(path) \o "_")

\* C2: every key of a definition's secrets is derived from the final segment of
\* one of that definition's own paths, and every result merged into a definition
\* answers a request submitted for that definition
C2_ResultsAttributedToOwnDefinition ==
  \A d \in Definitions :
    /\ \A key \in DOMAIN d.secrets : \E n \in 1..Len(d.paths) : DerivedFrom(key, d.paths[n])
    /\ d.mergedFrom \subseteq {d.EnvKey}

\* the second batch of a run, of two paths: the result of the second path was
\* drained and merged first, the result of the first path is the next one
C2_Witness ==
  /\ pc = "drain" /\ k = 2 /\ Len(defs) >= 1
  /\ Len(def.paths) = 2
  /\ def.mergedFrom = {def.EnvKey}
  /\ secretsOutputCh # <<>> /\ Head(secretsOutputCh).KeyPath = def.paths[1]

\* C3: once the write of any sink returned an error the run has ended fatally,
\* at the definition whose sink it was
C3_AnyDispatchErrorIsFatal ==
  \A e \in ioErrors : pc = "fatal" /\ j = e.def

\* C4: a definition in its submit or drain loop, and every definition of defs,
\* has at least one path
C4_PathsNonEmpty ==
  /\ Batching => def.paths # <<>>
  /\ \A n \in 1..Len(defs) : defs[n].paths # <<>>

\* C5: the listings on which the claim says Walk fails: an error, an empty list,
\* a payload that is no sequence of names, an entry that is no string
ClaimedWalkFailure(resp) ==
  IF resp.err THEN TRUE
  ELSE IF resp.isNil \/ DOMAIN resp.Data = {} THEN TRUE
  ELSE IF "keys" \notin DOMAIN resp.Data THEN TRUE
  ELSE IF resp.Data["keys"].t # "list" THEN TRUE
  ELSE IF resp.Data["keys"].elems = <<>> THEN TRUE
  ELSE \E n \in 1..Len(resp.Data["keys"].elems) : resp.Data["keys"].elems[n].t # "string"

\* the requests and results of the engine that were submitted for the variable name
EngineHolds(name) ==
  \/ \E n \in 1..Len(keyPathInputCh) : keyPathInputCh[n].owner = name
  \/ \E req \in BagToSet(inFlight) : req.owner = name
  \/ \E n \in 1..Len(secretsOutputCh) : secretsOutputCh[n].owner = name

\* C5: after a listing on which Walk is said to fail the run has ended fatally,
\* the definition's paths are as they were (none) and nothing was submitted for it
C5_WalkFailureAborts ==
  \A n \in 1..Len(listed) :
    ClaimedWalkFailure(listed[n].resp) =>
      /\ pc = "fatal"
      /\ n = Len(listed)
      /\ def.EnvKey = listed[n].owner /\ def.paths = <<>>
      /\ ~EngineHolds(listed[n].owner) /\ def.mergedFrom = {}

\* no call of Setenv returned an error
NoSetenvError == \A e \in ioErrors : e.sink # "env"

LastHolder(key) ==
  CHOOSE n \in 1..Len(defs) :
    /\ key \in DOMAIN defs[n].secrets
    /\ \A m \in (n + 1)..Len(defs) : key \notin DOMAIN defs[m].secrets

PossibleContents(d) == {d.secrets[key] : key \in DOMAIN d.secrets}

\* C7: after the output of a singular definition with a destination, the write
\* not having failed, the file exists and holds the one value it can hold
C7_SingularDestinationWritten ==
  \A n \in 1..Len(defs) :
    ( /\ pc \in {"dispatch", "done"} /\ n < j
      /\ ~defs[n].plural /\ defs[n].OutputDestination # ""
      /\ [sink |-> "destination", def |-> n] \notin ioErrors ) =>
        /\ defs[n].OutputDestination \in DOMAIN files
        /\ Cardinality(PossibleContents(defs[n])) = 1
        /\ files[defs[n].OutputDestination] \in PossibleContents(defs[n])

\* C8: with a payload path configured, after the output of each definition the
\* payload file is the JSON object of that definition's secrets alone, so at the
\* end of the run it is that of the last definition
C8_PayloadIsLastDefinition ==
  (pc \in {"dispatch", "done"} /\ j > 1 /\ config.SecretPayloadPath # "") =>
    /\ config.SecretPayloadPath \in DOMAIN files
    /\ files[config.SecretPayloadPath] = Marshal(defs[j - 1].secrets)

\* a finished run with a payload path and two definitions, the first of which
\* holds a key the last one lacks
C8_Witness ==
  /\ pc = "done" /\ config.SecretPayloadPath # "" /\ Len(defs) >= 2
  /\ \E key \in DOMAIN defs[1].secrets : key \notin DOMAIN defs[Len(defs)].secrets

\* the entries of envs the scan loop has been through: those before i, and
\* the i-th once its definition exists
Scanned == IF def # NoDef THEN 1..i ELSE 1..(i - 1)

\* the definitions made for the variable name, those the gate dropped included
YieldedFor(name) == {d \in Definitions \cup skipped : d.EnvKey = name}

\* the times a definition was made for the variable name
YieldCount(name) ==
  Cardinality({n \in 1..Len(defs) : defs[n].EnvKey = name})
    + (IF def # NoDef /\ def.EnvKey = name THEN 1 ELSE 0)
    + Cardinality({d \in skipped : d.EnvKey = name})

\* d is the definition the claim describes for name: its secretID is the name
\* less the prefix, it is plural exactly for the plural prefix
DefinitionOf(d, name) ==
  \E prefix \in {secretStoragePathPrefix, secretsStoragePathPrefix} :
    /\ name = prefix \o d.SecretID
    /\ d.plural = (prefix = secretsStoragePathPrefix)

Prefixed(name) ==
  HasPrefix(name, secretStoragePathPrefix) \/ HasPrefix(name, secretsStoragePathPrefix)

\* C9 as claimed: every scanned variable with one of the two prefixes, its value
\* empty or not, has yielded exactly one definition, the one described; every
\* other variable has yielded none
C9_EveryPrefixedVariableYieldsOne ==
  \A n \in Scanned \cap (1..Len(envs)) :
    LET name == EnvName(envs[n]) IN
    IF Prefixed(name)
    THEN YieldCount(name) = 1 /\ \A d \in YieldedFor(name) : DefinitionOf(d, name)
    ELSE YieldCount(name) = 0

\* C9 as amended: every scanned variable with one of the two prefixes and a
\* value that is not empty has yielded exactly one definition, the one
\* described; every other variable has yielded none
C9_EveryNonEmptyPrefixedVariableYieldsOne ==
  \A n \in Scanned \cap (1..Len(envs)) :
    LET name == EnvName(envs[n]) IN
    IF Prefixed(name) /\ EnvValue(envs[n]) # ""
    THEN YieldCount(name) = 1 /\ \A d \in YieldedFor(name) : DefinitionOf(d, name)
    ELSE YieldCount(name) = 0

\* a finished run over a singular variable, a plural variable and a prefixed
\* variable with an empty value: two definitions
C9_Witness ==
  /\ pc = "done" /\ Len(defs) = 2
  /\ \E a, b, c \in 1..Len(envs) :
       /\ HasPrefix(EnvName(envs[a]), secretStoragePathPrefix) /\ EnvValue(envs[a]) # ""
       /\ HasPrefix(EnvName(envs[b]), secretsStoragePathPrefix) /\ EnvValue(envs[b]) # ""
       /\ Prefixed(EnvName(envs[c])) /\ EnvValue(envs[c]) = ""

\* the validation gate applies to the n-th entry: a prefixed variable with a
\* value, no payload path, no export, and none of the three companion variables set
GateApplies(n) ==
  LET name == EnvName(envs[n])
      id == IF HasPrefix(name, secretStoragePathPrefix)
            THEN TrimPrefix(name, secretStoragePathPrefix)
            ELSE TrimPrefix(name, secretsStoragePathPrefix)
  IN /\ config.SecretPayloadPath = "" /\ ~config.SecretEnv
     /\ Prefixed(name) /\ EnvValue(envs[n]) # ""
     /\ \A v \in {id, ToLower(id), ToUpper(id)} :
          secretDestinationPrefix \o v \notin DOMAIN procEnv
            \/ procEnv[secretDestinationPrefix \o v] = ""

\* no definition, listing, request or result exists for a variable the gate applies to
C10_SkippedLeavesNoTrace ==
  \A n \in 1..Len(envs) :
    GateApplies(n) =>
      LET name == EnvName(envs[n]) IN
      /\ \A d \in Definitions : d.EnvKey # name
      /\ \A m \in 1..Len(listed) : listed[m].owner # name
      /\ ~EngineHolds(name)
      /\ (n < i => \E d \in skipped : d.EnvKey = name)

\* the step of the scan loop at an entry the gate applies to goes on to the next
\* entry and changes nothing else of the run
C10_SkipStep ==
  (pc = "scan" /\ i <= Len(envs) /\ GateApplies(i)) =>
    /\ pc' = "scan" /\ i' = i + 1
    /\ UNCHANGED <<envs, procEnv, config, def, k, defs, j, files, listed, ioErrors>>
    /\ UNCHANGED <<keyPathInputCh, inFlight, secretsOutputCh, submitted, produced, readCalls>>

\* C10: a definition the validation gate applies to is skipped and the run goes
\* on: nothing is listed, submitted or dispatched for it, and its step leaves
\* the state the other definitions are resolved, fetched and dispatched from as
\* it would be without the variable
C10_GateSkipsLocally ==
  /\ []C10_SkippedLeavesNoTrace
  /\ [][C10_SkipStep]_vars

\* a finished run that skipped one definition and wrote another to its destination
C10_Witness ==
  /\ pc = "done"
  /\ \E n \in 1..Len(envs) : GateApplies(n)
  /\ \E m \in 1..Len(defs) : defs[m].OutputDestination \in DOMAIN files

(***************************************************************************)
(* The destination lookup alone: runs over one variable of a secretID in   *)
(* mixed case and any of its companion variables, set or set and empty.    *)
(***************************************************************************)
DestinationDefs == {"VAULT_SECRET_Ab=p/A", "VAULT_SECRETS_Ab=g"}

\* the companion variables of Ab as given, in lower case, in upper case, and
\* in a case the lookup does not try; one entry of a row at most
DestinationPool ==
  << {"DAYTONA_SECRET_DESTINATION_Ab=/out/given", "DAYTONA_SECRET_DESTINATION_Ab="},
     {"DAYTONA_SECRET_DESTINATION_ab=/out/lower", "DAYTONA_SECRET_DESTINATION_ab="},
     {"DAYTONA_SECRET_DESTINATION_AB=/out/upper"},
     {"DAYTONA_SECRET_DESTINATION_aB=/out/other"} >>

RECURSIVE DestinationEnvirons(_)
\* the environments of the rows n.. of the pool
DestinationEnvirons(n) ==
  IF n > Len(DestinationPool) THEN {<<>>}
  ELSE LET rest == DestinationEnvirons(n + 1)
       IN rest \cup {<<x>> \o e : x \in DestinationPool[n], e \in rest}

\* one worker, no payload file: neither has a part in the lookup
DestinationInit ==
  \E d \in DestinationDefs, e \in DestinationEnvirons(1), export \in BOOLEAN :
    LET c == [Workers |-> 1, SecretEnv |-> export, SecretPayloadPath |-> ""]
    IN InitWith(<<d>> \o e, c) \/ InitWith(e \o <<d>>, c)

DestinationSpec == DestinationInit /\ [][Next]_vars

\* the value of the variable name in the snapshot envs, "" when it is not there
Snapshot(name) ==
  IF \E n \in 1..Len(envs) : EnvName(envs[n]) = name
  THEN EnvValue(envs[CHOOSE n \in 1..Len(envs) : EnvName(envs[n]) = name])
  ELSE ""

\* the three names the lookup tries for a secretID, in its order
Variants(secretID) ==
  << secretDestinationPrefix \o secretID,
     secretDestinationPrefix \o ToLower(secretID),
     secretDestinationPrefix \o ToUpper(secretID) >>

\* C11: the destination of every definition, skipped or not, is the value of
\* the first of the companion variables as given, lower case, upper case that
\* is set and not empty, and is empty when none of the three is
C11_FirstNonEmptyVariantWins ==
  \A d \in Definitions \cup skipped :
    LET v == Variants(d.SecretID)
        set == {n \in 1..3 : Snapshot(v[n]) # ""}
    IN IF set = {} THEN d.OutputDestination = ""
       ELSE \E n \in set : /\ \A m \in set : n <= m
                           /\ d.OutputDestination = Snapshot(v[n])

\* a definition made while the as-given companion is set and empty and the
\* lower-case and upper-case companions both have a value: lower case wins
C11_Witness ==
  /\ Snapshot("DAYTONA_SECRET_DESTINATION_ab") = "/out/lower"
  /\ Snapshot("DAYTONA_SECRET_DESTINATION_AB") = "/out/upper"
  /\ \E n \in 1..Len(envs) : envs[n] = "DAYTONA_SECRET_DESTINATION_Ab="
  /\ Len(defs) = 1 /\ defs[1].SecretID = "Ab" /\ defs[1].OutputDestination = "/out/lower"

\* the step merges a result: the drain loop goes on to its next iteration
MergeStep == pc = "drain" /\ pc' = "drain" /\ k' = k + 1

\* the merge of the result r took secrets from before to after: the attribute
\* "value" is stored under the final segment of the path, every other attribute
\* under the segment, "_" and its name, and every other key is as it was
Merged(before, r, after) ==
  LET keyName == PathFile(r.KeyPath)
      produces == {keyName \o "_" \o a : a \in DOMAIN r.Data \ {"value"}}
                    \cup (IF "value" \in DOMAIN r.Data THEN {keyName} ELSE {})
  IN /\ "value" \in DOMAIN r.Data =>
          keyName \in DOMAIN after /\ after[keyName] = r.Data["value"].str
     /\ \A a \in DOMAIN r.Data \ {"value"} :
          /\ keyName \o "_" \o a \in DOMAIN after
          /\ after[keyName \o "_" \o a] = r.Data[a].str
     /\ \A x \in DOMAIN before \ produces : x \in DOMAIN after /\ after[x] = before[x]

\* C12: every step that merges a result leaves the secrets of the definition as
\* the claim says, for the result it took from the engine
C12_MergeStoresEveryAttribute ==
  [][MergeStep => Merged(def.secrets, Head(secretsOutputCh), def'.secrets)]_vars

\* both results of a batch of two paths are merged, each had the attribute
\* "value": the key of the first merge is still there after the second
C12_Witness ==
  /\ pc = "drain" /\ k = 3 /\ Len(def.paths) = 2
  /\ DOMAIN def.secrets = {PathFile(def.paths[1]), PathFile(def.paths[2])}

\* C13: the store's read is called at most once per submission, path by path,
\* and the reads in flight are never more than the configured workers
C13_OneReadPerRequestAtMostNInFlight ==
  /\ readCalls \sqsubseteq submitted
  /\ BagCardinality(inFlight) <= config.Workers

\* every worker has a read in flight, a further request waits in the channel,
\* and one path was submitted twice and read twice
C13_Witness ==
  /\ BagCardinality(inFlight) = config.Workers
  /\ keyPathInputCh # <<>>
  /\ \E p \in EnginePaths : CopiesIn(p, readCalls) = 2 /\ CopiesIn(p, submitted) = 2

\* C14 as claimed: while the engine holds a request, a read or a result of the
\* batch of a definition, nothing has been merged into the secrets of that
\* definition
C14_NoMergeWhileEngineHoldsWork ==
  \A d \in Definitions : EngineHolds(d.EnvKey) => d.secrets = EmptyMap

\* no sink has been written: the process environment is the snapshot, no file
\* exists, no write was attempted and failed
SinksUntouched ==
  /\ files = EmptyMap
  /\ ioErrors = {}
  /\ Cardinality(DOMAIN procEnv) = Len(envs)
  /\ \A n \in 1..Len(envs) :
       \E name \in DOMAIN procEnv : envs[n] = name \o "=" \o procEnv[name]

\* every entry of envs has been scanned, no batch is open and the engine holds
\* nothing: every request submitted was read and its result consumed
AllResolvedAndFetched ==
  /\ i > Len(envs) /\ def = NoDef
  /\ keyPathInputCh = <<>> /\ inFlight = EmptyBag /\ secretsOutputCh = <<>>
  /\ produced = submitted

\* C15: a sink is written only in the output loop, after every definition was
\* resolved and its batch drained and merged; a run that ended before the
\* output loop (a fatal list failure, result error or not-found result) has
\* left every sink untouched
C15_NoSinkBeforeAllFetched ==
  /\ (j >= 1 /\ AllResolvedAndFetched) \/ SinksUntouched
  /\ (pc \in Exited /\ j = 0) => SinksUntouched

\* a run with the export sink or a destination that ended fatally in the scan
\* or in a batch, after the batch of an earlier definition was merged
C15_Witness ==
  /\ pc = "fatal" /\ j = 0
  /\ Len(defs) >= 1 /\ defs[1].secrets # EmptyMap
  /\ config.SecretEnv \/ defs[1].OutputDestination # ""
  /\ SinksUntouched

\* the submit loop of a definition is about to submit its first path
BatchStarts == pc = "submit" /\ k = 1

\* C16: when the submit loop of a definition starts, as many results have been
\* consumed as requests submitted: the request channel is empty, no read is in
\* flight, every submitted path has its result and no result waits
C16_EngineQuiescentAtBatchStart ==
  BatchStarts =>
    /\ keyPathInputCh = <<>>
    /\ inFlight = EmptyBag
    /\ secretsOutputCh = <<>>
    /\ produced = submitted

\* the batch of a later definition starts after a batch of two paths was
\* submitted, read and drained
C16_Witness ==
  /\ BatchStarts
  /\ Len(def.paths) >= 1
  /\ \E n \in 1..Len(defs) : Len(defs[n].paths) = 2
  /\ BagCardinality(submitted) >= 2

\* C17: when SecretFetcher and the workers go on while they can and every list
\* and read call returns, the run ends: it returns after the output loop, or
\* exits fatally
C17_RunTerminates == <>(pc \in {"done"} \cup Exited)

\* a run with one worker and a batch of two paths that has returned
C17_Witness ==
  /\ pc = "done"
  /\ config.Workers = 1
  /\ \E n \in 1..Len(defs) : Len(defs[n].paths) = 2
  /\ BagCardinality(produced) >= 2

\* the key the attribute a of the secret at path is merged under
KeyOf(path, a) ==
  IF a = "value" THEN PathFile(path) ELSE PathFile(path) \o "_" \o a

\* the indices of the paths of d whose answer has an attribute merged under key
Producers(d, key) ==
  {n \in 1..Len(d.paths) :
     /\ d.paths[n] \in DOMAIN d.answers
     /\ \E a \in DOMAIN d.answers[d.paths[n]] : KeyOf(d.paths[n], a) = key}

\* the value the n-th path of d gives to key
ValueFrom(d, n, key) ==
  LET data == d.answers[d.paths[n]]
  IN data[CHOOSE a \in DOMAIN data : KeyOf(d.paths[n], a) = key].str

\* the keys the answers of the paths of d are merged under
AllKeys(d) ==
  UNION { {KeyOf(d.paths[n], a) : a \in DOMAIN d.answers[d.paths[n]]} :
            n \in {m \in 1..Len(d.paths) : d.paths[m] \in DOMAIN d.answers} }

\* the secrets of d when its results are merged in the order of its paths: a
\* key has the value of the last path that produces it
InPathOrder(d) ==
  [key \in AllKeys(d) |->
     ValueFrom(d, CHOOSE n \in Producers(d, key) : \A m \in Producers(d, key) : m <= n, key)]

\* C18 as claimed: the secrets of every definition whose batch is closed are
\* one function of its paths and of what the store holds at them (the one the
\* run that drains in the order of the paths computes), a key that two paths
\* produce included
C18_SecretsSameInEveryOrder ==
  \A n \in 1..Len(defs) : defs[n].secrets = InPathOrder(defs[n])

\* C18 as amended: the keys of the secrets of every definition whose batch is
\* closed are the keys its answers produce, and every key that one path only
\* produces has the value of that path, in whatever order the results came
C18_SecretsSameButForCollisions ==
  \A n \in 1..Len(defs) :
    LET d == defs[n] IN
    /\ DOMAIN d.secrets = AllKeys(d)
    /\ \A key \in AllKeys(d) :
         Cardinality(Producers(d, key)) = 1 =>
           d.secrets[key] = ValueFrom(d, CHOOSE m \in Producers(d, key) : TRUE, key)

\* a closed batch of two paths that both produce one key, drained against the
\* order of the paths: the key has the value of the first path, the key that
\* one path only produces has its value
C18_Witness ==
  \E n \in 1..Len(defs) :
    LET d == defs[n] IN
    /\ Len(d.paths) = 2
    /\ \E key \in AllKeys(d) :
         /\ Producers(d, key) = {1, 2}
         /\ ValueFrom(d, 1, key) # ValueFrom(d, 2, key)
         /\ d.secrets[key] = ValueFrom(d, 1, key)
    /\ \E key \in AllKeys(d) : Producers(d, key) = {1}

====
